---- MODULE Spec2Model ----
(***************************************************************************)
(* Quality-gated multi-stage pipeline of the GitHub repository analysis    *)
(* tool: the six LangGraph nodes of src/src/agents.py, the graph and the   *)
(* summary of src/src/workflow.py and the fetch tool of src/src/tools.py.  *)
(*                                                                         *)
(* Python str values that the code searches or concatenates are modelled   *)
(* as sequences of one-character strings; dict keys and fixed labels that  *)
(* are only compared are TLA+ strings.  A dict is a function whose domain  *)
(* is its key set.                                                         *)
(***************************************************************************)
EXTENDS Integers, Sequences, FiniteSets, TLC

VARIABLES
  state,             \* the AgentState dict threaded through the nodes
  pc,                \* the node the workflow runs next, "END", "summarized" or "raised"
  vector_available,  \* module flag set by the optional import of agents.py
  quality_summary,   \* what get_quality_summary returned (main.py), {} before
  trace,             \* history: the nodes that have run, in order
  outcomes,          \* history: node -> what its external capability did
  calls,             \* history: the capability calls made, in order, by node
  twin,              \* the AgentState of a second run, started on the same request
  walk               \* the file loop of fetch_github_repos over one repository

vars ==
  <<state, pc, vector_available, quality_summary, trace, outcomes, calls, twin,
    walk>>

----------------------------------------------------------------------------
(* Bounds of the model *)

\* most repositories the GitHub account holds
MaxRepos == 2

\* number of files in the root listing of a repository that has files
FilesPerRepo == 2

\* number of files in the widest listing the file loop is run on
WalkFiles == 52

----------------------------------------------------------------------------
(* Python str and dict operations *)

LowerLetters ==
  <<"a","b","c","d","e","f","g","h","i","j","k","l","m",
    "n","o","p","q","r","s","t","u","v","w","x","y","z">>

UpperLetters ==
  <<"A","B","C","D","E","F","G","H","I","J","K","L","M",
    "N","O","P","Q","R","S","T","U","V","W","X","Y","Z">>

Digits == <<"0","1","2","3","4","5","6","7","8","9">>

\* str.upper() letter by letter: a-z go to A-Z
UpperOf == [i \in 1..Len(LowerLetters) |-> UpperLetters[i]]
UpperMap ==
  [c \in {LowerLetters[i] : i \in 1..Len(LowerLetters)} |->
     UpperOf[CHOOSE i \in 1..Len(LowerLetters) : LowerLetters[i] = c]]

\* one character of str.upper(): any other character is unchanged
UpperChar(c) == IF c \in DOMAIN UpperMap THEN UpperMap[c] ELSE c

\* s.upper()
str_upper(s) == [i \in 1..Len(s) |-> UpperChar(s[i])]

\* sub in s
str_in(sub, s) ==
  \E i \in 0..(Len(s) - Len(sub)) : SubSeq(s, i + 1, i + Len(sub)) = sub

\* str(n) for a non-negative int
RECURSIVE str_int(_)
str_int(n) ==
  IF n < 10 THEN <<Digits[n + 1]>>
  ELSE str_int(n \div 10) \o <<Digits[(n % 10) + 1]>>

\* s.split(sep) for a one-character separator
RECURSIVE str_split(_, _)
str_split(s, sep) ==
  IF \E i \in 1..Len(s) : s[i] = sep
  THEN LET k == CHOOSE i \in 1..Len(s) :
                  s[i] = sep /\ \A j \in 1..(i - 1) : s[j] # sep
       IN <<SubSeq(s, 1, k - 1)>> \o str_split(SubSeq(s, k + 1, Len(s)), sep)
  ELSE <<s>>

\* s.strip()
RECURSIVE str_strip(_)
str_strip(s) ==
  IF s = <<>> THEN s
  ELSE IF Head(s) \in {" ", "\n", "\t"} THEN str_strip(Tail(s))
  ELSE IF s[Len(s)] \in {" ", "\n", "\t"} THEN str_strip(SubSeq(s, 1, Len(s) - 1))
  ELSE s

\* {}
EmptyDict == [k \in {} |-> TRUE]

\* d.get(key, default)
dict_get(d, key, default) == IF key \in DOMAIN d THEN d[key] ELSE default

\* d[key] = value
dict_set(d, key, value) == (key :> value) @@ d

Min(a, b) == IF a < b THEN a ELSE b

----------------------------------------------------------------------------
(* String literals of the source *)

\* "APPROVED"
APPROVED ==
  <<"A","P","P","R","O","V","E","D">>

\* "Error during data quality review: "
ErrDataReviewPrefix ==
  <<"E","r","r","o","r"," ","d","u","r","i","n","g"," ","d","a","t","a"," ","q","u","a","l","i",
    "t","y"," ","r","e","v","i","e","w",":"," ">>

\* "Error during analysis quality review: "
ErrAnalysisReviewPrefix ==
  <<"E","r","r","o","r"," ","d","u","r","i","n","g"," ","a","n","a","l","y","s","i","s"," ","q",
    "u","a","l","i","t","y"," ","r","e","v","i","e","w",":"," ">>

\* "Error during final quality review: "
ErrFinalReviewPrefix ==
  <<"E","r","r","o","r"," ","d","u","r","i","n","g"," ","f","i","n","a","l"," ","q","u","a","l",
    "i","t","y"," ","r","e","v","i","e","w",":"," ">>

\* "Failed to fetch repository data: "
ErrFetchDataPrefix ==
  <<"F","a","i","l","e","d"," ","t","o"," ","f","e","t","c","h"," ","r","e","p","o","s","i","t",
    "o","r","y"," ","d","a","t","a",":"," ">>

\* "Failed to fetch repositories for user "
ErrFetchUserPrefix ==
  <<"F","a","i","l","e","d"," ","t","o"," ","f","e","t","c","h"," ","r","e","p","o","s","i","t",
    "o","r","i","e","s"," ","f","o","r"," ","u","s","e","r"," ">>

\* ": "
ColonSpace ==
  <<":"," ">>

\* "Could not access repository: "
ErrAccessPrefix ==
  <<"C","o","u","l","d"," ","n","o","t"," ","a","c","c","e","s","s"," ","r","e","p","o","s","i",
    "t","o","r","y",":"," ">>

\* "Error analyzing repository "
ErrAnalyzingPrefix ==
  <<"E","r","r","o","r"," ","a","n","a","l","y","z","i","n","g"," ","r","e","p","o","s","i","t",
    "o","r","y"," ">>

\* "unknown"
UnknownName ==
  <<"u","n","k","n","o","w","n">>

\* "\n\nVector Analysis: Processed "
VectorProcessedPrefix ==
  <<"\n","\n","V","e","c","t","o","r"," ","A","n","a","l","y","s","i","s",":"," ","P","r","o",
    "c","e","s","s","e","d"," ">>

\* " files for semantic analysis."
VectorProcessedSuffix ==
  <<" ","f","i","l","e","s"," ","f","o","r"," ","s","e","m","a","n","t","i","c"," ","a","n","a",
    "l","y","s","i","s",".">>

\* "\n\nVector Analysis: Not available for this repository."
VectorNotAvailable ==
  <<"\n","\n","V","e","c","t","o","r"," ","A","n","a","l","y","s","i","s",":"," ","N","o","t",
    " ","a","v","a","i","l","a","b","l","e"," ","f","o","r"," ","t","h","i","s"," ","r","e","p",
    "o","s","i","t","o","r","y",".">>

\* "\n\nCloud Analysis: "
CloudAnalysisPrefix ==
  <<"\n","\n","C","l","o","u","d"," ","A","n","a","l","y","s","i","s",":"," ">>

\* "Error during synthesis: "
ErrSynthesisPrefix ==
  <<"E","r","r","o","r"," ","d","u","r","i","n","g"," ","s","y","n","t","h","e","s","i","s",":",
    " ">>

\* "all"
AllSelector ==
  <<"a","l","l">>
----------------------------------------------------------------------------
(* Inputs: what the user passes and what the external capabilities do *)

\* "octocat"
UserName ==
  <<"o","c","t","o","c","a","t">>

\* "r1"
SelectorOne ==
  <<"r","1">>

\* "r1, r2"
SelectorTwo ==
  <<"r","1",","," ","r","2">>

\* "r"
RepoNamePrefix ==
  <<"r">>

\* "f"
FilePathPrefix ==
  <<"f">>

\* "needs_improvement: not approved"
TextNotApprovedLower ==
  <<"n","e","e","d","s","_","i","m","p","r","o","v","e","m","e","n","t",":"," ","n","o","t"," ",
    "a","p","p","r","o","v","e","d">>

\* "this report is not APPROVED yet"
TextNotApprovedYet ==
  <<"t","h","i","s"," ","r","e","p","o","r","t"," ","i","s"," ","n","o","t"," ","A","P","P","R",
    "O","V","E","D"," ","y","e","t">>

\* "NEEDS_IMPROVEMENT: gaps remain"
TextNeedsImprovement ==
  <<"N","E","E","D","S","_","I","M","P","R","O","V","E","M","E","N","T",":"," ","g","a","p","s",
    " ","r","e","m","a","i","n">>

\* "request timed out"
MsgTimeout ==
  <<"r","e","q","u","e","s","t"," ","t","i","m","e","d"," ","o","u","t">>

\* "key not approved for model"
MsgNotApproved ==
  <<"k","e","y"," ","n","o","t"," ","a","p","p","r","o","v","e","d"," ","f","o","r"," ","m","o",
    "d","e","l">>

\* "404 Not Found"
MsgNotFound ==
  <<"4","0","4"," ","N","o","t"," ","F","o","u","n","d">>

\* "401 Bad credentials"
MsgBadCredentials ==
  <<"4","0","1"," ","B","a","d"," ","c","r","e","d","e","n","t","i","a","l","s">>

\* "validation error"
MsgValidation ==
  <<"v","a","l","i","d","a","t","i","o","n"," ","e","r","r","o","r">>

\* "Analysis of "
AnalysisOfPrefix ==
  <<"A","n","a","l","y","s","i","s"," ","o","f"," ">>

\* "Portfolio report"
ReportText ==
  <<"P","o","r","t","f","o","l","i","o"," ","r","e","p","o","r","t">>

\* "{'score': 1}"
CloudData ==
  <<"{","'","s","c","o","r","e","'",":"," ","1","}">>
\* the outcome of one call of a text-generation capability (chain.run):
\* it returns a text or raises an Exception carrying a message
Returned(t) == [kind |-> "return", text |-> t]
Raised(m) == [kind |-> "raise", msg |-> m]

ErrorMessages == {MsgTimeout, MsgNotApproved}

ReviewTexts == {TextNotApprovedYet, TextNotApprovedLower, TextNeedsImprovement}

ReviewerOutcomes ==
  {Returned(t) : t \in ReviewTexts} \cup {Raised(m) : m \in ErrorMessages}

SynthesizerOutcomes == {Returned(ReportText), Raised(MsgTimeout)}

\* the analyzer model answers about the repository it is shown, or raises
AnalyzerOutcomes(repo) ==
  {Returned(AnalysisOfPrefix \o dict_get(repo, "name", UnknownName)),
   Raised(MsgTimeout)}

\* repo_names values the user passes: 'all' or a comma-separated list
Selectors == {AllSelector, SelectorOne, SelectorTwo}

\* the i-th repository name of the account, "r1", "r2", ...
RepoName(i) == RepoNamePrefix \o str_int(i)

\* the i-th file path of a root listing, "f1", "f2", ...
FilePath(i) == FilePathPrefix \o str_int(i)

\* a ContentFile of a listing: a readable text file of 120 bytes
PlainFile(i) ==
  [type |-> "file", path |-> FilePath(i), size |-> 120, readable |-> TRUE,
   content |-> "text"]

\* what repo.get_contents(path) does: a listing, or a raise
Listing(entries) == [ok |-> TRUE, entries |-> entries]
ListingFails == [ok |-> FALSE, entries |-> <<>>]

\* the root listings a repository of the account may have
RootListings ==
  {ListingFails, Listing(<<>>), Listing([i \in 1..FilesPerRepo |-> PlainFile(i)])}

\* a repository on GitHub: its name and what get_contents answers per path
GitHubRepo(i, root) == [name |-> RepoName(i), tree |-> (<<>> :> root)]

\* what GitHub answers during one fetch: the tool call may fail before the
\* tool body runs (invoke_ok), the user lookup may fail (user_ok), and the
\* account holds the repositories repos, in get_repos() order
GitHubWorlds ==
  {[invoke_ok |-> FALSE, user_ok |-> FALSE, repos |-> <<>>],
   [invoke_ok |-> TRUE, user_ok |-> FALSE, repos |-> <<>>]}
  \cup
  UNION {{[invoke_ok |-> TRUE, user_ok |-> TRUE,
           repos |-> [i \in 1..n |-> GitHubRepo(i, roots[i])]]
          : roots \in [1..n -> RootListings]} : n \in 0..MaxRepos}

\* the repositories the file loop is run on, one at a time: a root listing
\* of n files, behind a directory d1 that is absent ("none"), cannot be
\* listed ("fails") or lists m files ("ok"), behind a directory d1/d2 that is
\* absent, cannot be listed or lists one file; in a "mixed" repository every
\* third file is above the size limit and every third cannot be read
DirPath == <<"d", "1">>
NestedDirPath == <<"d", "1", "/", "d", "2">>

WalkDir(path) == [type |-> "dir", path |-> path]

WalkFile(path, i, pattern) ==
  [type |-> "file", path |-> path,
   size |-> IF pattern = "mixed" /\ i % 3 = 0 THEN 200000 ELSE 120,
   readable |-> ~(pattern = "mixed" /\ i % 3 = 1),
   content |-> "text"]

WalkListing(prefix, n, pattern) ==
  [i \in 1..n |-> WalkFile(prefix \o FilePath(i), i, pattern)]

WalkRepo(n, sub, m, nested, pattern) ==
  [name |-> RepoName(1),
   tree |->
     (<<>> :> Listing((IF sub = "none" THEN <<>> ELSE <<WalkDir(DirPath)>>)
                      \o WalkListing(<<>>, n, pattern)))
     @@ (IF sub = "ok"
         THEN DirPath :>
                Listing((IF nested = "none" THEN <<>>
                         ELSE <<WalkDir(NestedDirPath)>>)
                        \o WalkListing(DirPath \o <<"/">>, m, pattern))
         ELSE IF sub = "fails" THEN DirPath :> ListingFails
         ELSE EmptyDict)
     @@ (IF sub = "ok" /\ nested = "ok"
         THEN NestedDirPath :>
                Listing(WalkListing(NestedDirPath \o <<"/">>, 1, pattern))
         ELSE IF sub = "ok" /\ nested = "fails"
         THEN NestedDirPath :> ListingFails
         ELSE EmptyDict)]

WalkRepos ==
  {WalkRepo(n, sub, m, nested, pattern) :
     n \in {0, 3, WalkFiles - 3, WalkFiles},
     sub \in {"none", "fails", "ok"},
     m \in {0, 3},
     nested \in {"none", "fails", "ok"},
     pattern \in {"plain", "mixed"}}

----------------------------------------------------------------------------
(* src/src/tools.py: fetch_github_repos *)

\* per-repository file limit
max_files == 50

\* 'all' takes the first 10 repositories
all_repos_limit == 10

\* files above this size are stored as a placeholder
large_file_size == 100000

\* the loop condition "while contents and processed_files < max_files"
walk_continues(contents, processed_files) ==
  contents # <<>> /\ processed_files < max_files

\* a plausible slip: a file whose read failed is stored but not counted
walk_step_error_uncounted(repo, contents, files, processed_files) ==
  LET file == Head(contents)
      rest == Tail(contents)
  IN IF file.type = "dir"
     THEN IF file.path \in DOMAIN repo.tree /\ repo.tree[file.path].ok
          THEN [contents |-> rest \o repo.tree[file.path].entries,
                files |-> files, processed_files |-> processed_files]
          ELSE [contents |-> rest, files |-> files,
                processed_files |-> processed_files]
     ELSE IF file.size > large_file_size
     THEN [contents |-> rest,
           files |-> dict_set(files, file.path, "[Large file]"),
           processed_files |-> processed_files + 1]
     ELSE IF file.readable
     THEN [contents |-> rest,
           files |-> dict_set(files, file.path, file.content),
           processed_files |-> processed_files + 1]
     ELSE [contents |-> rest,
           files |-> dict_set(files, file.path, "[Error reading file]"),
           processed_files |-> processed_files]

\* one pass through the body of the while loop: the first pending entry is
\* popped; a directory has its listing appended to the pending list, or is
\* skipped when the listing raises; anything else is stored and counted
walk_step(repo, contents, files, processed_files) ==
  LET file == Head(contents)
      rest == Tail(contents)
  IN IF file.type = "dir"
     THEN IF file.path \in DOMAIN repo.tree /\ repo.tree[file.path].ok
          THEN [contents |-> rest \o repo.tree[file.path].entries,
                files |-> files, processed_files |-> processed_files]
          ELSE [contents |-> rest, files |-> files,
                processed_files |-> processed_files]
     ELSE IF file.size > large_file_size
     THEN [contents |-> rest,
           files |-> dict_set(files, file.path, "[Large file]"),
           processed_files |-> processed_files + 1]
     ELSE IF file.readable
     THEN [contents |-> rest,
           files |-> dict_set(files, file.path, file.content),
           processed_files |-> processed_files + 1]
     ELSE [contents |-> rest,
           files |-> dict_set(files, file.path, "[Error reading file]"),
           processed_files |-> processed_files + 1]

\* the while loop over the pending contents list of one repository
RECURSIVE traverse_contents(_, _, _, _)
traverse_contents(repo, contents, files, processed_files) ==
  IF ~walk_continues(contents, processed_files)
  THEN [files |-> files, processed_files |-> processed_files]
  ELSE LET w == walk_step(repo, contents, files, processed_files)
       IN traverse_contents(repo, w.contents, w.files, w.processed_files)

\* the body of "for repo in repos": one snapshot per repository
repo_snapshot(repo) ==
  IF repo.tree[<<>>].ok
  THEN LET t == traverse_contents(repo, repo.tree[<<>>].entries, EmptyDict, 0)
       IN [name |-> repo.name,
           files |-> t.files,
           total_files_processed |-> t.processed_files]
  ELSE [name |-> repo.name,
        error |-> ErrAccessPrefix \o MsgNotFound,
        files |-> EmptyDict,
        total_files_processed |-> 0]

\* user.get_repo(name) finds the repository or raises
has_repo(gh, name) == \E i \in 1..Len(gh.repos) : gh.repos[i].name = name
get_repo(gh, name) ==
  gh.repos[CHOOSE i \in 1..Len(gh.repos) : gh.repos[i].name = name]

\* a plausible slip: the outer except returns an empty list
fetch_failed_empty(username, msg) == <<>>

\* the snapshot list the tool returns when its outer try block raises
fetch_failed(username, msg) ==
  <<[error |-> ErrFetchUserPrefix \o username \o ColonSpace \o msg,
     files |-> EmptyDict,
     total_files_processed |-> 0]>>

fetch_github_repos(username, repo_names, gh) ==
  IF ~gh.user_ok THEN fetch_failed(username, MsgBadCredentials)
  ELSE IF repo_names = AllSelector
  THEN LET repos == SubSeq(gh.repos, 1, Min(all_repos_limit, Len(gh.repos)))
       IN [i \in 1..Len(repos) |-> repo_snapshot(repos[i])]
  ELSE LET parts == str_split(repo_names, ",")
           repo_list == [i \in 1..Len(parts) |-> str_strip(parts[i])]
       IN IF \E i \in 1..Len(repo_list) : ~has_repo(gh, repo_list[i])
          THEN fetch_failed(username, MsgNotFound)
          ELSE [i \in 1..Len(repo_list) |->
                  repo_snapshot(get_repo(gh, repo_list[i]))]

----------------------------------------------------------------------------
(* src/src/agents.py: the node functions *)

\* A node returns [state, raised]: the state it hands back, and whether an
\* exception left the function instead of a return.
Return(st) == [state |-> st, raised |-> FALSE]
Propagate(st) == [state |-> st, raised |-> TRUE]

\* agents.py imports typing, langchain, src.config and src.tools: the name
\* os, which analyzer_node reads, is not bound in the module
os_imported == FALSE

fetcher_node(st, gh) ==
  IF gh.invoke_ok
  THEN Return([st EXCEPT !.repos_data =
                 fetch_github_repos(st.username, st.repos, gh)])
  ELSE Return([st EXCEPT !.repos_data =
                 <<[error |-> ErrFetchDataPrefix \o MsgValidation,
                    files |-> EmptyDict,
                    total_files_processed |-> 0]>>])

\* a plausible slip: the literal is searched without upper()
data_quality_reviewer_node_case_sensitive(st, out) ==
  IF out.kind = "return"
  THEN Return([st EXCEPT !.data_quality_review =
                 [review |-> out.text,
                  approved |-> str_in(APPROVED, out.text),
                  reviewer |-> "Data Quality Reviewer"]])
  ELSE Return([st EXCEPT !.data_quality_review =
                 [review |-> ErrDataReviewPrefix \o out.msg,
                  approved |-> FALSE,
                  reviewer |-> "Data Quality Reviewer"]])

\* a plausible slip: the except branch writes the error text alone
data_quality_reviewer_node_bare_failure(st, out) ==
  IF out.kind = "return"
  THEN Return([st EXCEPT !.data_quality_review =
                 [review |-> out.text,
                  approved |-> str_in(APPROVED, str_upper(out.text)),
                  reviewer |-> "Data Quality Reviewer"]])
  ELSE Return([st EXCEPT !.data_quality_review =
                 [review |-> ErrDataReviewPrefix \o out.msg]])

data_quality_reviewer_node(st, out) ==
  IF out.kind = "return"
  THEN LET review == out.text
           approved == str_in(APPROVED, str_upper(review))
       IN Return([st EXCEPT !.data_quality_review =
                    [review |-> review,
                     approved |-> approved,
                     reviewer |-> "Data Quality Reviewer"]])
  ELSE Return([st EXCEPT !.data_quality_review =
                 [review |-> ErrDataReviewPrefix \o out.msg,
                  approved |-> FALSE,
                  reviewer |-> "Data Quality Reviewer"]])

\* a plausible slip: the except branch of the vector block is "pass"
vector_insight_of_silent(repo, vec, vec_available) ==
  IF vec_available /\ DOMAIN dict_get(repo, "files", EmptyDict) # {}
  THEN LET docs == {path \in DOMAIN repo.files : repo.files[path] # ""}
       IN IF docs = {} THEN <<>>
          ELSE IF vec = "raise" THEN <<>>
          ELSE VectorProcessedPrefix \o str_int(Cardinality(docs))
                 \o VectorProcessedSuffix
  ELSE <<>>

\* the optional vector analysis of one repository; vec tells whether the
\* embedding calls raise
vector_insight_of(repo, vec, vec_available) ==
  IF vec_available /\ DOMAIN dict_get(repo, "files", EmptyDict) # {}
  THEN LET docs == {path \in DOMAIN repo.files : repo.files[path] # ""}
       IN IF docs = {} THEN <<>>
          ELSE IF vec = "raise" THEN VectorNotAvailable
          ELSE VectorProcessedPrefix \o str_int(Cardinality(docs))
                 \o VectorProcessedSuffix
  ELSE <<>>

\* src/src/tools.py: call_cloud_run answers success with the service's data
\* or success False with an error
call_cloud_run(cloud) ==
  IF cloud = "ok" THEN [success |-> TRUE, data |-> CloudData]
  ELSE [success |-> FALSE]

\* the optional Cloud Run block of one repository; every exception raised
\* inside it is swallowed, the NameError of an unbound os included
cloud_insight_of(repo, cloud) ==
  IF ~os_imported THEN <<>>
  ELSE IF cloud = "unconfigured" THEN <<>>
  ELSE IF "name" \notin DOMAIN repo THEN <<>>
  ELSE LET cloud_result == call_cloud_run(cloud)
       IN IF cloud_result.success THEN CloudAnalysisPrefix \o cloud_result.data
          ELSE <<>>

\* the body of "for repo in state['repos_data']": the analysis appended for
\* one repository; env holds the outcomes of the calls made for it
analysis_of(repo, env, vec_available) ==
  IF env.llm.kind = "return"
  THEN env.llm.text \o vector_insight_of(repo, env.vec, vec_available)
         \o cloud_insight_of(repo, env.cloud)
  ELSE ErrAnalyzingPrefix \o dict_get(repo, "name", UnknownName)
         \o ColonSpace \o env.llm.msg

\* a plausible slip: a repository whose analysis failed gets no entry
RECURSIVE analyze_loop_skip_failed(_, _, _, _)
analyze_loop_skip_failed(repos, envs, analyses, vec_available) ==
  IF repos = <<>> THEN analyses
  ELSE analyze_loop_skip_failed(
         Tail(repos), Tail(envs),
         IF Head(envs).llm.kind = "return"
         THEN Append(analyses, analysis_of(Head(repos), Head(envs), vec_available))
         ELSE analyses,
         vec_available)

\* a plausible slip: the try block is around the loop, so the first failed
\* repository gets its error string and ends the loop
RECURSIVE analyze_loop_abort_on_failure(_, _, _, _)
analyze_loop_abort_on_failure(repos, envs, analyses, vec_available) ==
  IF repos = <<>> THEN analyses
  ELSE IF Head(envs).llm.kind = "raise"
  THEN Append(analyses, analysis_of(Head(repos), Head(envs), vec_available))
  ELSE analyze_loop_abort_on_failure(
         Tail(repos), Tail(envs),
         Append(analyses, analysis_of(Head(repos), Head(envs), vec_available)),
         vec_available)

\* the for loop of analyzer_node, appending one analysis per repository
RECURSIVE analyze_loop(_, _, _, _)
analyze_loop(repos, envs, analyses, vec_available) ==
  IF repos = <<>> THEN analyses
  ELSE analyze_loop(Tail(repos), Tail(envs),
                    Append(analyses, analysis_of(Head(repos), Head(envs), vec_available)),
                    vec_available)

\* a plausible slip: the except handler reads repo['name'], which raises a
\* KeyError for a snapshot without a name
analyzer_node_keyerror(st, envs, vec_available) ==
  IF \E i \in 1..Len(st.repos_data) :
       envs[i].llm.kind = "raise" /\ "name" \notin DOMAIN st.repos_data[i]
  THEN Propagate(st)
  ELSE Return([st EXCEPT !.analyses =
                 analyze_loop(st.repos_data, envs, <<>>, vec_available)])

\* a plausible slip: the analyzer writes each analysis into its snapshot too
analyzer_node_marks_snapshots(st, envs, vec_available) ==
  LET analyses == analyze_loop(st.repos_data, envs, <<>>, vec_available)
  IN Return([st EXCEPT
               !.analyses = analyses,
               !.repos_data =
                 [i \in 1..Len(st.repos_data) |->
                    dict_set(st.repos_data[i], "analysis", analyses[i])]])

analyzer_node(st, envs, vec_available) ==
  Return([st EXCEPT !.analyses =
            analyze_loop(st.repos_data, envs, <<>>, vec_available)])

\* a plausible slip: the verdict is read from the start of the text only
analysis_quality_reviewer_node_startswith(st, out) ==
  IF out.kind = "return"
  THEN Return([st EXCEPT !.analysis_quality_review =
                 [review |-> out.text,
                  approved |-> Len(out.text) >= Len(APPROVED)
                               /\ SubSeq(str_upper(out.text), 1, Len(APPROVED)) = APPROVED,
                  reviewer |-> "Analysis Quality Reviewer"]])
  ELSE Return([st EXCEPT !.analysis_quality_review =
                 [review |-> ErrAnalysisReviewPrefix \o out.msg,
                  approved |-> FALSE,
                  reviewer |-> "Analysis Quality Reviewer"]])

analysis_quality_reviewer_node(st, out) ==
  IF out.kind = "return"
  THEN LET review == out.text
           approved == str_in(APPROVED, str_upper(review))
       IN Return([st EXCEPT !.analysis_quality_review =
                    [review |-> review,
                     approved |-> approved,
                     reviewer |-> "Analysis Quality Reviewer"]])
  ELSE Return([st EXCEPT !.analysis_quality_review =
                 [review |-> ErrAnalysisReviewPrefix \o out.msg,
                  approved |-> FALSE,
                  reviewer |-> "Analysis Quality Reviewer"]])

\* a plausible slip: the except branch is "pass", the report stays as it was
synthesizer_node_silent(st, out) ==
  IF out.kind = "return"
  THEN Return([st EXCEPT !.final_report = out.text])
  ELSE Return(st)

\* a plausible slip: the call is made outside any try block
synthesizer_node_no_try(st, out) ==
  IF out.kind = "return"
  THEN Return([st EXCEPT !.final_report = out.text])
  ELSE Propagate(st)

\* a plausible slip: the synthesizer refuses analyses the gate rejected
synthesizer_node_gated(st, out) ==
  IF ~dict_get(st.analysis_quality_review, "approved", FALSE)
  THEN Return([st EXCEPT !.final_report = st.analysis_quality_review.review])
  ELSE IF out.kind = "return"
  THEN Return([st EXCEPT !.final_report = out.text])
  ELSE Return([st EXCEPT !.final_report = ErrSynthesisPrefix \o out.msg])

synthesizer_node(st, out) ==
  IF out.kind = "return"
  THEN Return([st EXCEPT !.final_report = out.text])
  ELSE Return([st EXCEPT !.final_report = ErrSynthesisPrefix \o out.msg])

\* a plausible slip: the except branch also puts the error into final_report
final_quality_reviewer_node_clobbers_report(st, out) ==
  IF out.kind = "return"
  THEN Return([st EXCEPT !.final_quality_review =
                 [review |-> out.text,
                  approved |-> str_in(APPROVED, str_upper(out.text)),
                  reviewer |-> "Final Quality Reviewer"]])
  ELSE Return([st EXCEPT !.final_report = ErrFinalReviewPrefix \o out.msg,
                         !.final_quality_review =
                           [review |-> ErrFinalReviewPrefix \o out.msg,
                            approved |-> FALSE,
                            reviewer |-> "Final Quality Reviewer"]])

\* a plausible slip: the except branch applies the heuristic to the error text
final_quality_reviewer_node_fail_open(st, out) ==
  LET review == IF out.kind = "return" THEN out.text
                ELSE ErrFinalReviewPrefix \o out.msg
  IN Return([st EXCEPT !.final_quality_review =
               [review |-> review,
                approved |-> str_in(APPROVED, str_upper(review)),
                reviewer |-> "Final Quality Reviewer"]])

final_quality_reviewer_node(st, out) ==
  IF out.kind = "return"
  THEN LET review == out.text
           approved == str_in(APPROVED, str_upper(review))
       IN Return([st EXCEPT !.final_quality_review =
                    [review |-> review,
                     approved |-> approved,
                     reviewer |-> "Final Quality Reviewer"]])
  ELSE Return([st EXCEPT !.final_quality_review =
                 [review |-> ErrFinalReviewPrefix \o out.msg,
                  approved |-> FALSE,
                  reviewer |-> "Final Quality Reviewer"]])

\* sep.join(texts)
RECURSIVE str_join(_, _)
str_join(sep, texts) ==
  IF texts = <<>> THEN <<>>
  ELSE IF Len(texts) = 1 THEN texts[1]
  ELSE texts[1] \o sep \o str_join(sep, Tail(texts))

\* what a node takes out of the state and hands to its capability
capability_input(node, st) ==
  CASE node = "fetcher" ->
         [username |-> st.username, repo_names |-> st.repos]
    [] node = "data_quality_reviewer" ->
         [repos_data |-> st.repos_data]
    [] node = "analyzer" ->
         [repos_data |-> st.repos_data]
    [] node = "analysis_quality_reviewer" ->
         [analysis |-> str_join(<<" ">>, st.analyses)]
    [] node = "synthesizer" ->
         [analyses |-> str_join(<<"\n", "\n">>, st.analyses)]
    [] node = "final_quality_reviewer" ->
         [report |-> st.final_report]

\* a plausible slip: a call that raised is made a second time
capability_calls_retry(node, st, out) ==
  CASE node = "fetcher" ->
         IF out.invoke_ok THEN <<node>> ELSE <<node, node>>
    [] node = "analyzer" ->
         [k \in 1..(Len(st.repos_data)
                    + Cardinality({i \in 1..Len(st.repos_data) :
                                     out[i].llm.kind = "raise"})) |-> node]
    [] OTHER ->
         IF out.kind = "return" THEN <<node>> ELSE <<node, node>>

\* the capability calls one run of a node makes, whatever they do: the
\* analyzer makes one chain.run per repository of repos_data, every other
\* node makes the one call of its try block, and no except branch calls again
capability_calls(node, st, out) ==
  CASE node = "analyzer" -> [i \in 1..Len(st.repos_data) |-> node]
    [] OTHER -> <<node>>

\* the one key of the state a node assigns
owned_field(node) ==
  CASE node = "fetcher" -> "repos_data"
    [] node = "data_quality_reviewer" -> "data_quality_review"
    [] node = "analyzer" -> "analyses"
    [] node = "analysis_quality_reviewer" -> "analysis_quality_review"
    [] node = "synthesizer" -> "final_report"
    [] node = "final_quality_reviewer" -> "final_quality_review"

----------------------------------------------------------------------------
(* src/src/workflow.py: the graph, run_analysis and get_quality_summary *)

nodes ==
  {"fetcher", "data_quality_reviewer", "analyzer",
   "analysis_quality_reviewer", "synthesizer", "final_quality_reviewer"}

entry_point == "fetcher"

\* a plausible slip: the data review is wired to the synthesizer
edges_skip_analyzer ==
  ("fetcher" :> "data_quality_reviewer")
  @@ ("data_quality_reviewer" :> "synthesizer")
  @@ ("analyzer" :> "analysis_quality_reviewer")
  @@ ("analysis_quality_reviewer" :> "synthesizer")
  @@ ("synthesizer" :> "final_quality_reviewer")
  @@ ("final_quality_reviewer" :> "END")

\* graph.add_edge(a, b): after node a the workflow runs b
edges ==
  ("fetcher" :> "data_quality_reviewer")
  @@ ("data_quality_reviewer" :> "analyzer")
  @@ ("analyzer" :> "analysis_quality_reviewer")
  @@ ("analysis_quality_reviewer" :> "synthesizer")
  @@ ("synthesizer" :> "final_quality_reviewer")
  @@ ("final_quality_reviewer" :> "END")

\* the dict run_analysis hands to workflow.invoke
initial_state(username, repos) ==
  [username |-> username,
   repos |-> repos,
   repos_data |-> <<>>,
   analyses |-> <<>>,
   final_report |-> <<>>,
   data_quality_review |-> EmptyDict,
   analysis_quality_review |-> EmptyDict,
   final_quality_review |-> EmptyDict]

\* not r.get("error"): the key is absent (None) or holds the empty string
no_error(r) == "error" \notin DOMAIN r \/ r.error = <<>>

\* a plausible slip: every snapshot counts as analyzed
repositories_analyzed_all(repos_data) == Len(repos_data)

\* len([r for r in repos_data if not r.get("error")])
repositories_analyzed(repos_data) ==
  Cardinality({i \in 1..Len(repos_data) : no_error(repos_data[i])})

\* a plausible slip: the count is read under the key files_processed
RECURSIVE total_files_processed_wrong_key(_)
total_files_processed_wrong_key(repos_data) ==
  IF repos_data = <<>> THEN 0
  ELSE dict_get(Head(repos_data), "files_processed", 0)
         + total_files_processed_wrong_key(Tail(repos_data))

\* sum(r.get("total_files_processed", 0) for r in repos_data)
RECURSIVE total_files_processed(_)
total_files_processed(repos_data) ==
  IF repos_data = <<>> THEN 0
  ELSE dict_get(Head(repos_data), "total_files_processed", 0)
         + total_files_processed(Tail(repos_data))

\* a plausible slip: the final gate is left out of the conjunction
all_approved_two_gates(data_quality, analysis_quality, final_quality) ==
  dict_get(data_quality, "approved", FALSE)
  /\ dict_get(analysis_quality, "approved", FALSE)

\* a plausible slip: any() where all() was meant
all_approved_any(data_quality, analysis_quality, final_quality) ==
  dict_get(data_quality, "approved", FALSE)
  \/ dict_get(analysis_quality, "approved", FALSE)
  \/ dict_get(final_quality, "approved", FALSE)

\* the conjunction of the three gates' approved flags, False when absent
all_approved(data_quality, analysis_quality, final_quality) ==
  dict_get(data_quality, "approved", FALSE)
  /\ dict_get(analysis_quality, "approved", FALSE)
  /\ dict_get(final_quality, "approved", FALSE)

get_quality_summary(result) ==
  LET data_quality == dict_get(result, "data_quality_review", EmptyDict)
      analysis_quality == dict_get(result, "analysis_quality_review", EmptyDict)
      final_quality == dict_get(result, "final_quality_review", EmptyDict)
      repos_data == dict_get(result, "repos_data", <<>>)
  IN [overall_approved |-> all_approved(data_quality, analysis_quality, final_quality),
      repositories_analyzed |-> repositories_analyzed(repos_data),
      total_files_processed |-> total_files_processed(repos_data),
      data_quality |-> data_quality,
      analysis_quality |-> analysis_quality,
      final_quality |-> final_quality]

----------------------------------------------------------------------------
(* The state machine: workflow.invoke runs one node at a time *)

Init ==
  /\ \E repos \in Selectors : state = initial_state(UserName, repos)
  /\ pc = entry_point
  /\ vector_available \in BOOLEAN
  /\ quality_summary = EmptyDict
  /\ trace = <<>>
  /\ outcomes = EmptyDict
  /\ calls = <<>>
  /\ twin = state
  /\ walk = EmptyDict

\* a node has run with result r: the workflow follows the node's edge, or
\* the exception the node let out ends workflow.invoke
NodeDone(node, r, out) ==
  /\ state' = r.state
  /\ pc' = IF r.raised THEN "raised" ELSE edges[node]
  /\ trace' = Append(trace, node)
  /\ outcomes' = outcomes @@ (node :> out)
  /\ calls' = calls \o capability_calls(node, state, out)
  /\ UNCHANGED <<vector_available, quality_summary, twin, walk>>

\* the names a list selector asks for
repo_list_of(repo_names) ==
  LET parts == str_split(repo_names, ",")
  IN [i \in 1..Len(parts) |-> str_strip(parts[i])]

\* history of one fetch: whether the tool call and the user lookup went
\* through and, for a list selector, which of the names asked for exist
FetchOutcome(st, gh) ==
  [invoke_ok |-> gh.invoke_ok,
   user_ok |-> gh.user_ok,
   selected |->
     IF st.repos = AllSelector THEN <<>>
     ELSE [i \in 1..Len(repo_list_of(st.repos)) |->
             [name |-> repo_list_of(st.repos)[i],
              exists |-> has_repo(gh, repo_list_of(st.repos)[i])]]]

Fetcher ==
  /\ pc = "fetcher"
  /\ \E gh \in GitHubWorlds :
       NodeDone("fetcher", fetcher_node(state, gh), FetchOutcome(state, gh))

DataQualityReviewer ==
  /\ pc = "data_quality_reviewer"
  /\ \E out \in ReviewerOutcomes :
       NodeDone("data_quality_reviewer", data_quality_reviewer_node(state, out), out)

\* the outcomes of the calls analyzer_node makes for one repository: the
\* analyzer model, the embedding calls (when they are made) and Cloud Run
CloudOutcomes == {"unconfigured", "fail", "ok"}

AnalyzerEnvs(repo) ==
  {[llm |-> l, vec |-> v, cloud |-> c] :
     l \in AnalyzerOutcomes(repo),
     v \in IF vector_available /\ DOMAIN dict_get(repo, "files", EmptyDict) # {}
           THEN {"ok", "raise"} ELSE {"none"},
     c \in CloudOutcomes}

Analyzer ==
  /\ pc = "analyzer"
  /\ \E envs \in {e \in [1..Len(state.repos_data) ->
                           UNION {AnalyzerEnvs(state.repos_data[i]) :
                                    i \in 1..Len(state.repos_data)}] :
                    \A i \in 1..Len(state.repos_data) :
                      e[i] \in AnalyzerEnvs(state.repos_data[i])} :
       NodeDone("analyzer", analyzer_node(state, envs, vector_available),
                [i \in 1..Len(envs) |-> [llm |-> envs[i].llm, vec |-> envs[i].vec]])

AnalysisQualityReviewer ==
  /\ pc = "analysis_quality_reviewer"
  /\ \E out \in ReviewerOutcomes :
       NodeDone("analysis_quality_reviewer",
                analysis_quality_reviewer_node(state, out), out)

Synthesizer ==
  /\ pc = "synthesizer"
  /\ \E out \in SynthesizerOutcomes :
       NodeDone("synthesizer", synthesizer_node(state, out), out)

\* the history of the final review keeps the report the reviewer was given
FinalQualityReviewer ==
  /\ pc = "final_quality_reviewer"
  /\ \E out \in ReviewerOutcomes :
       NodeDone("final_quality_reviewer", final_quality_reviewer_node(state, out),
                out @@ capability_input("final_quality_reviewer", state))

\* a plausible slip: the summary takes repos_data out of the result with pop
result_after_summary_pop(result) ==
  [k \in DOMAIN result \ {"repos_data"} |-> result[k]]

\* the dict handed to get_quality_summary, as the call leaves it: the
\* function reads it with .get and assigns to no key of it
result_after_summary(result) == result

\* main.py: after run_analysis returns, the summary of its result is taken,
\* once for the PDF and once more for the console
Summarize ==
  /\ pc \in {"END", "summarized"}
  /\ quality_summary' = get_quality_summary(state)
  /\ state' = result_after_summary(state)
  /\ pc' = "summarized"
  /\ UNCHANGED <<vector_available, trace, outcomes, calls, twin, walk>>

Next ==
  \/ Fetcher
  \/ DataQualityReviewer
  \/ Analyzer
  \/ AnalysisQualityReviewer
  \/ Synthesizer
  \/ FinalQualityReviewer
  \/ Summarize

Spec == Init /\ [][Next]_vars

\* workflow.invoke is one thread that runs the next node whenever there is
\* one, and main.py then calls get_quality_summary: a step that can be taken
\* is taken.  The runs checked for termination are those that select
\* repositories by name ("r1" or "r1, r2").
FairInit == Init /\ state.repos # AllSelector

FairSpec == FairInit /\ [][Next]_vars /\ WF_vars(Next)

\* analyzer_node again, with the outcome of every call it made for a
\* repository kept in the history, the Cloud Run call included
AnalyzerWithCloudHistory ==
  /\ pc = "analyzer"
  /\ \E envs \in {e \in [1..Len(state.repos_data) ->
                           UNION {AnalyzerEnvs(state.repos_data[i]) :
                                    i \in 1..Len(state.repos_data)}] :
                    \A i \in 1..Len(state.repos_data) :
                      e[i] \in AnalyzerEnvs(state.repos_data[i])} :
       NodeDone("analyzer", analyzer_node(state, envs, vector_available), envs)

\* a run up to the end of analyzer_node
AnalyzerNext ==
  \/ Fetcher
  \/ DataQualityReviewer
  \/ AnalyzerWithCloudHistory

AnalyzerSpec == FairInit /\ [][AnalyzerNext]_vars

\* Two runs of run_analysis side by side, on the same request: GitHub, the
\* analyzer and the synthesizer answer both runs alike, the reviewers
\* answer each run on its own.

\* what the reviewers answer the second run: an approval or a failure
TwinReviewerOutcomes == {Returned(TextNotApprovedLower), Raised(MsgTimeout)}

TwinInit == Init /\ state.repos = SelectorTwo

\* both runs have run node: r and rt are what it handed back to each
TwinNodeDone(node, r, rt) ==
  /\ state' = r.state
  /\ twin' = rt.state
  /\ pc' = IF r.raised \/ rt.raised THEN "raised" ELSE edges[node]
  /\ trace' = Append(trace, node)
  /\ UNCHANGED <<vector_available, quality_summary, outcomes, calls, walk>>

TwinFetcher ==
  /\ pc = "fetcher"
  /\ \E gh \in GitHubWorlds :
       TwinNodeDone("fetcher", fetcher_node(state, gh), fetcher_node(twin, gh))

TwinDataQualityReviewer ==
  /\ pc = "data_quality_reviewer"
  /\ \E out \in ReviewerOutcomes, outt \in TwinReviewerOutcomes :
       TwinNodeDone("data_quality_reviewer",
                    data_quality_reviewer_node(state, out),
                    data_quality_reviewer_node(twin, outt))

TwinAnalyzer ==
  /\ pc = "analyzer"
  /\ \E envs \in {e \in [1..Len(state.repos_data) ->
                           UNION {AnalyzerEnvs(state.repos_data[i]) :
                                    i \in 1..Len(state.repos_data)}] :
                    \A i \in 1..Len(state.repos_data) :
                      e[i] \in AnalyzerEnvs(state.repos_data[i])} :
       TwinNodeDone("analyzer",
                    analyzer_node(state, envs, vector_available),
                    analyzer_node(twin, envs, vector_available))

TwinAnalysisQualityReviewer ==
  /\ pc = "analysis_quality_reviewer"
  /\ \E out \in ReviewerOutcomes, outt \in TwinReviewerOutcomes :
       TwinNodeDone("analysis_quality_reviewer",
                    analysis_quality_reviewer_node(state, out),
                    analysis_quality_reviewer_node(twin, outt))

TwinSynthesizer ==
  /\ pc = "synthesizer"
  /\ \E out \in SynthesizerOutcomes :
       TwinNodeDone("synthesizer",
                    synthesizer_node(state, out), synthesizer_node(twin, out))

TwinFinalQualityReviewer ==
  /\ pc = "final_quality_reviewer"
  /\ \E out \in ReviewerOutcomes, outt \in TwinReviewerOutcomes :
       TwinNodeDone("final_quality_reviewer",
                    final_quality_reviewer_node(state, out),
                    final_quality_reviewer_node(twin, outt))

TwinNext ==
  \/ TwinFetcher
  \/ TwinDataQualityReviewer
  \/ TwinAnalyzer
  \/ TwinAnalysisQualityReviewer
  \/ TwinSynthesizer
  \/ TwinFinalQualityReviewer

TwinSpec == TwinInit /\ [][TwinNext]_vars

\* The per-repository body of fetch_github_repos, one pass of its while
\* loop at a time; walk.seen is the history of the entries popped.

WalkInit ==
  /\ state = initial_state(UserName, AllSelector)
  /\ pc = entry_point
  /\ vector_available = TRUE
  /\ quality_summary = EmptyDict
  /\ trace = <<>>
  /\ outcomes = EmptyDict
  /\ calls = <<>>
  /\ twin = state
  /\ \E repo \in WalkRepos :
       walk = [repo |-> repo,
               contents |-> repo.tree[<<>>].entries,
               files |-> EmptyDict,
               processed_files |-> 0,
               seen |-> <<>>,
               phase |-> "loop",
               repo_data |-> EmptyDict]

WalkStep ==
  /\ walk.phase = "loop"
  /\ walk_continues(walk.contents, walk.processed_files)
  /\ LET w == walk_step(walk.repo, walk.contents, walk.files,
                        walk.processed_files)
     IN walk' = [walk EXCEPT !.contents = w.contents,
                             !.files = w.files,
                             !.processed_files = w.processed_files,
                             !.seen = Append(@, Head(walk.contents))]
  /\ UNCHANGED <<state, pc, vector_available, quality_summary, trace,
                 outcomes, calls, twin>>

\* the loop is left and the snapshot of the repository is built
WalkFinish ==
  /\ walk.phase = "loop"
  /\ ~walk_continues(walk.contents, walk.processed_files)
  /\ walk' = [walk EXCEPT
                !.phase = "done",
                !.repo_data = [name |-> walk.repo.name,
                               files |-> walk.files,
                               total_files_processed |-> walk.processed_files]]
  /\ UNCHANGED <<state, pc, vector_available, quality_summary, trace,
                 outcomes, calls, twin>>

WalkNext ==
  \/ WalkStep
  \/ WalkFinish

WalkSpec == WalkInit /\ [][WalkNext]_vars

----------------------------------------------------------------------------
(* Properties *)

ReviewNodes ==
  {"data_quality_reviewer", "analysis_quality_reviewer", "final_quality_reviewer"}

\* the gate record a review node owns
Gate(n) ==
  CASE n = "data_quality_reviewer" -> state.data_quality_review
    [] n = "analysis_quality_reviewer" -> state.analysis_quality_review
    [] n = "final_quality_reviewer" -> state.final_quality_review

\* node n has run and handed its state back
HasRun(n) == n \in DOMAIN outcomes /\ pc # "raised"

\* the lower-case form of a letter, any other character unchanged
LowerMap ==
  [c \in {UpperLetters[i] : i \in 1..Len(UpperLetters)} |->
     LowerLetters[CHOOSE i \in 1..Len(UpperLetters) : UpperLetters[i] = c]]

LowerChar(c) == IF c \in DOMAIN LowerMap THEN LowerMap[c] ELSE c

\* the text t holds the letters a-p-p-r-o-v-e-d in a row, in either case
ApprovedLiteralIn(t) ==
  \E i \in 0..(Len(t) - Len(APPROVED)) :
    \A j \in 1..Len(APPROVED) : LowerChar(t[i + j]) = LowerChar(APPROVED[j])

Terminal == pc \in {"END", "summarized"}

\* C1: in every terminal state the summary's overall_approved is the
\* conjunction of the approved flags of the three gate records, so one
\* disapproving gate makes it false whatever the other two say.
C1_OverallApprovedIsConjunction ==
  /\ pc = "END" =>
       get_quality_summary(state).overall_approved =
         (state.data_quality_review.approved
          /\ state.analysis_quality_review.approved
          /\ state.final_quality_review.approved)
  /\ pc = "summarized" =>
       /\ quality_summary.overall_approved =
            (state.data_quality_review.approved
             /\ state.analysis_quality_review.approved
             /\ state.final_quality_review.approved)
       /\ \A n \in ReviewNodes : ~Gate(n).approved => ~quality_summary.overall_approved

\* C1 witness: a summarized run in which only the final gate disapproves
C1_Witness ==
  /\ pc = "summarized"
  /\ state.data_quality_review.approved
  /\ state.analysis_quality_review.approved
  /\ ~state.final_quality_review.approved
  /\ ~quality_summary.overall_approved

\* C2: when a reviewer returns a text t, the gate's approved flag is true
\* exactly when t holds the literal APPROVED in any letter case.
C2_ApprovedIffLiteralPresent ==
  \A n \in ReviewNodes :
    (HasRun(n) /\ outcomes[n].kind = "return") =>
      (Gate(n).approved <=> ApprovedLiteralIn(outcomes[n].text))

\* C2 witness: "needs_improvement: not approved" was approved by one gate,
\* "this report is not APPROVED yet" by another, and a text with only
\* NEEDS_IMPROVEMENT was disapproved by the third
C2_Witness ==
  /\ \A n \in ReviewNodes : HasRun(n) /\ outcomes[n].kind = "return"
  /\ outcomes["data_quality_reviewer"].text = TextNotApprovedLower
  /\ state.data_quality_review.approved
  /\ outcomes["analysis_quality_reviewer"].text = TextNotApprovedYet
  /\ state.analysis_quality_review.approved
  /\ outcomes["final_quality_reviewer"].text = TextNeedsImprovement
  /\ ~state.final_quality_review.approved

StageOrder ==
  <<"fetcher", "data_quality_reviewer", "analyzer",
    "analysis_quality_reviewer", "synthesizer", "final_quality_reviewer">>

\* the capability call of node n failed (for the analyzer: for every snapshot)
CapabilityFailed(n) ==
  /\ n \in DOMAIN outcomes
  /\ CASE n = "fetcher" -> ~outcomes[n].invoke_ok \/ ~outcomes[n].user_ok
       [] n = "analyzer" ->
            /\ Len(outcomes[n]) > 0
            /\ \A i \in 1..Len(outcomes[n]) : outcomes[n][i].llm.kind = "raise"
       [] OTHER -> outcomes[n].kind = "raise"

\* the field node n owns holds a value of the field's shape
OwnedFieldWritten(n) ==
  CASE n = "fetcher" ->
         /\ Len(state.repos_data) > 0 \/ ~CapabilityFailed(n)
         /\ \A i \in 1..Len(state.repos_data) :
              {"files", "total_files_processed"} \subseteq DOMAIN state.repos_data[i]
    [] n = "analyzer" -> Len(state.analyses) = Len(state.repos_data)
    [] n = "synthesizer" -> Len(state.final_report) > 0
    [] OTHER -> DOMAIN Gate(n) = {"review", "approved", "reviewer"}

\* C3: no exception leaves a node, whatever its capability does: each node
\* that has run has handed the state back with the field it owns written,
\* a failed call having left a degraded value there.
C3_NoExceptionLeavesAStage ==
  /\ pc # "raised"
  /\ \A n \in DOMAIN outcomes : OwnedFieldWritten(n)
  /\ CapabilityFailed("fetcher") =>
       \A i \in 1..Len(state.repos_data) : "error" \in DOMAIN state.repos_data[i]
  /\ CapabilityFailed("synthesizer") =>
       state.final_report = ErrSynthesisPrefix \o outcomes["synthesizer"].msg

\* C3 witness: every capability call of the run failed and all six nodes
\* returned
C3_Witness ==
  /\ pc = "END"
  /\ \A n \in nodes : CapabilityFailed(n)

\* C4: the six nodes run in the fixed order, each once, one at a time: the
\* nodes that have run are always an initial part of that order, the node
\* to run next is the one that follows, and a finished run has run all six.
C4_FixedStageOrder ==
  /\ Len(trace) <= Len(StageOrder)
  /\ trace = SubSeq(StageOrder, 1, Len(trace))
  /\ pc \in nodes => pc = StageOrder[Len(trace) + 1]
  /\ Terminal => trace = StageOrder

\* C4 witness: a finished run in which the fetch failed and every gate
\* disapproved, and all six nodes still ran in order
C4_Witness ==
  /\ Terminal
  /\ trace = StageOrder
  /\ CapabilityFailed("fetcher")
  /\ \A n \in ReviewNodes : ~Gate(n).approved

\* C5: every run reaches a terminal state and its quality summary is
\* computed, whichever capability calls fail: under the fair scheduling of
\* workflow.invoke and main.py the run is eventually summarized.
C5_RunTerminatesWithSummary == <>(pc = "summarized")

\* C5 witness: a summarized run in which every capability call failed; its
\* summary counts no repository and no gate approval
C5_Witness ==
  /\ pc = "summarized"
  /\ \A n \in nodes : CapabilityFailed(n)
  /\ DOMAIN quality_summary =
       {"overall_approved", "repositories_analyzed", "total_files_processed",
        "data_quality", "analysis_quality", "final_quality"}
  /\ ~quality_summary.overall_approved
  /\ quality_summary.repositories_analyzed = 0

\* the text s starts with the text prefix
StartsWith(s, prefix) ==
  Len(s) >= Len(prefix) /\ SubSeq(s, 1, Len(prefix)) = prefix

ErrorWord == <<"E","r","r","o","r">>

\* C6: a failed reviewer call is fail-closed: the gate record of that node
\* has approved false and a review text that is an error description
\* holding the failure's message.
C6_FailedReviewIsDisapproved ==
  \A n \in ReviewNodes :
    (HasRun(n) /\ outcomes[n].kind = "raise") =>
      /\ Gate(n).approved = FALSE
      /\ StartsWith(Gate(n).review, ErrorWord)
      /\ str_in(outcomes[n].msg, Gate(n).review)
      /\ Len(Gate(n).review) > Len(outcomes[n].msg)

\* C6 witness: all three reviewer calls failed, one of them with a message
\* that itself holds the word approved, and every gate is disapproved
C6_Witness ==
  /\ \A n \in ReviewNodes :
       HasRun(n) /\ outcomes[n].kind = "raise" /\ ~Gate(n).approved
  /\ outcomes["final_quality_reviewer"].msg = MsgNotApproved
  /\ outcomes["data_quality_reviewer"].msg = MsgTimeout

\* C7 as stated: every gate record, written on the success or on the
\* failure path, has approved equal to the approval heuristic applied to
\* the record's own review text.
C7_ApprovedDerivedFromOwnText ==
  \A n \in ReviewNodes :
    HasRun(n) => (Gate(n).approved <=> ApprovedLiteralIn(Gate(n).review))

\* C7 amended: a gate record written on the success path has approved equal
\* to the heuristic applied to its own review text, which is the returned
\* text; a record written on the failure path has approved false whatever
\* its error text holds.
C7_ApprovedDerivedOnSuccessPath ==
  \A n \in ReviewNodes :
    HasRun(n) =>
      IF outcomes[n].kind = "return"
      THEN /\ Gate(n).review = outcomes[n].text
           /\ Gate(n).approved <=> ApprovedLiteralIn(Gate(n).review)
      ELSE Gate(n).approved = FALSE

\* C7 witness: a gate record of the failure path whose error text holds the
\* literal, with approved false, beside one of the success path whose text
\* holds it, with approved true
C7_Witness ==
  /\ HasRun("data_quality_reviewer") /\ HasRun("analysis_quality_reviewer")
  /\ outcomes["data_quality_reviewer"].kind = "raise"
  /\ ApprovedLiteralIn(state.data_quality_review.review)
  /\ ~state.data_quality_review.approved
  /\ outcomes["analysis_quality_reviewer"].kind = "return"
  /\ ApprovedLiteralIn(state.analysis_quality_review.review)
  /\ state.analysis_quality_review.approved

\* the snapshots of repos_data that carry no error key
CleanSnapshots == {i \in 1..Len(state.repos_data) : "error" \notin DOMAIN state.repos_data[i]}

\* the file count snapshot i carries, 0 when it carries none
FileCount(i) ==
  IF "total_files_processed" \in DOMAIN state.repos_data[i]
  THEN state.repos_data[i].total_files_processed ELSE 0

\* the sum of the file counts of the snapshots 1..n
RECURSIVE FileCountUpTo(_)
FileCountUpTo(n) == IF n = 0 THEN 0 ELSE FileCountUpTo(n - 1) + FileCount(n)

\* C8: in every state the summary's repositories_analyzed is the number of
\* snapshots of repos_data that carry no error field.
C8_RepositoriesAnalyzedCountsCleanSnapshots ==
  /\ get_quality_summary(state).repositories_analyzed = Cardinality(CleanSnapshots)
  /\ pc = "summarized" =>
       quality_summary.repositories_analyzed = Cardinality(CleanSnapshots)

\* C8 witness: a summarized run with one clean and one errored snapshot,
\* counted as 1
C8_Witness ==
  /\ pc = "summarized"
  /\ Len(state.repos_data) = 2
  /\ "error" \notin DOMAIN state.repos_data[1]
  /\ "error" \in DOMAIN state.repos_data[2]
  /\ quality_summary.repositories_analyzed = 1

\* C9: in every state the summary's total_files_processed is the sum of the
\* file counts of all snapshots of repos_data, errored ones included.
C9_TotalFilesSumsAllSnapshots ==
  /\ get_quality_summary(state).total_files_processed =
       FileCountUpTo(Len(state.repos_data))
  /\ pc = "summarized" =>
       quality_summary.total_files_processed = FileCountUpTo(Len(state.repos_data))

\* C9 witness: a summarized run with an errored snapshot before a clean one
\* that holds files; the total is the clean snapshot's count
C9_Witness ==
  /\ pc = "summarized"
  /\ Len(state.repos_data) = 2
  /\ "error" \in DOMAIN state.repos_data[1]
  /\ state.repos_data[1].total_files_processed = 0
  /\ "error" \notin DOMAIN state.repos_data[2]
  /\ state.repos_data[2].total_files_processed = FilesPerRepo
  /\ quality_summary.total_files_processed = FilesPerRepo
  /\ FilesPerRepo > 0

\* the analyzer has run
Analyzed == "analyzer" \in DOMAIN outcomes /\ pc # "raised"

\* the name the analyzer's error string gives snapshot i
SnapshotName(i) ==
  IF "name" \in DOMAIN state.repos_data[i] THEN state.repos_data[i].name
  ELSE UnknownName

\* C10: once analyzer_node has run, analyses has one entry per snapshot of
\* repos_data, in snapshot order: entry i is the error string naming
\* snapshot i when the analyzer call for snapshot i failed, and otherwise a
\* text that starts with what the analyzer returned for snapshot i.
C10_AnalysesAlignedWithSnapshots ==
  Analyzed =>
    /\ Len(state.analyses) = Len(state.repos_data)
    /\ Len(outcomes["analyzer"]) = Len(state.repos_data)
    /\ \A i \in 1..Len(state.repos_data) :
         LET call == outcomes["analyzer"][i].llm
         IN IF call.kind = "raise"
            THEN state.analyses[i] =
                   ErrAnalyzingPrefix \o SnapshotName(i) \o ColonSpace \o call.msg
            ELSE StartsWith(state.analyses[i], call.text)

\* C10 witness: a finished run over two snapshots in which the first
\* analyzer call failed and the second returned
C10_Witness ==
  /\ Terminal
  /\ Len(state.repos_data) = 2
  /\ outcomes["analyzer"][1].llm.kind = "raise"
  /\ outcomes["analyzer"][2].llm.kind = "return"
  /\ Len(state.analyses) = 2

FetchFailedWholesale ==
  /\ HasRun("fetcher")
  /\ \/ ~outcomes["fetcher"].invoke_ok
     \/ ~outcomes["fetcher"].user_ok
     \/ \E i \in 1..Len(outcomes["fetcher"].selected) :
          ~outcomes["fetcher"].selected[i].exists

\* C12: after a wholesale fetch failure repos_data is one synthetic
\* snapshot that carries an error and the file count 0, and the summary of
\* that run reports 0 repositories analyzed and 0 files processed.
C12_WholesaleFetchFailureYieldsOneErroredSnapshot ==
  FetchFailedWholesale =>
    /\ Len(state.repos_data) = 1
    /\ "error" \in DOMAIN state.repos_data[1]
    /\ Len(state.repos_data[1].error) > 0
    /\ state.repos_data[1].total_files_processed = 0
    /\ "name" \notin DOMAIN state.repos_data[1]
    /\ pc = "summarized" =>
         /\ quality_summary.repositories_analyzed = 0
         /\ quality_summary.total_files_processed = 0

\* C12 witness: the user lookup raised inside the tool and the run was
\* summarized with both counts 0
C12_Witness ==
  /\ pc = "summarized"
  /\ outcomes["fetcher"].invoke_ok
  /\ ~outcomes["fetcher"].user_ok
  /\ Len(state.repos_data) = 1
  /\ StartsWith(state.repos_data[1].error, ErrFetchUserPrefix)
  /\ quality_summary.repositories_analyzed = 0
  /\ quality_summary.total_files_processed = 0

\* C13: a failed analyzer call for snapshot i puts the error string naming
\* that repository at analyses[i] and nowhere else: every other entry is
\* what the loop gives it when the call for snapshot i returns instead.
C13_FailureReplacesOnlyItsOwnAnalysis ==
  Analyzed =>
    LET envs == outcomes["analyzer"]
    IN /\ Len(state.analyses) = Len(state.repos_data)
       /\ \A i \in 1..Len(state.repos_data) :
            envs[i].llm.kind = "raise" =>
              /\ state.analyses[i] =
                   ErrAnalyzingPrefix \o SnapshotName(i) \o ColonSpace
                     \o envs[i].llm.msg
              /\ \A ok \in {o \in AnalyzerOutcomes(state.repos_data[i]) :
                             o.kind = "return"} :
                   LET others == analyze_loop(state.repos_data,
                                              [envs EXCEPT ![i].llm = ok],
                                              <<>>, vector_available)
                   IN /\ Len(others) = Len(state.analyses)
                      /\ others[i] # state.analyses[i]
                      /\ \A j \in 1..Len(state.repos_data) \ {i} :
                           state.analyses[j] = others[j]

\* C13 witness: of two snapshots the first call failed, and the second
\* snapshot has its analyzer text with the vector insight after it
C13_Witness ==
  /\ Analyzed
  /\ Len(state.repos_data) = 2
  /\ outcomes["analyzer"][1].llm.kind = "raise"
  /\ outcomes["analyzer"][2].llm.kind = "return"
  /\ outcomes["analyzer"][2].vec = "ok"
  /\ StartsWith(state.analyses[1], ErrAnalyzingPrefix \o RepoName(1))
  /\ StartsWith(state.analyses[2],
                outcomes["analyzer"][2].llm.text \o VectorProcessedPrefix)

\* C14: when the synthesizer call fails, synthesizer_node returns with
\* final_report set to the error description, the workflow goes on to the
\* final review, and the final reviewer is given that error description
\* and writes its gate record.
C14_FailedSynthesisStillReviewed ==
  ("synthesizer" \in DOMAIN outcomes /\ outcomes["synthesizer"].kind = "raise") =>
    /\ pc \in {"final_quality_reviewer", "END", "summarized"}
    /\ state.final_report = ErrSynthesisPrefix \o outcomes["synthesizer"].msg
    /\ pc # "final_quality_reviewer" =>
         /\ trace[Len(trace)] = "final_quality_reviewer"
         /\ outcomes["final_quality_reviewer"].report =
              ErrSynthesisPrefix \o outcomes["synthesizer"].msg
         /\ DOMAIN state.final_quality_review = {"review", "approved", "reviewer"}

\* C14 witness: a finished run whose synthesizer call timed out and whose
\* final reviewer returned a verdict on the error description
C14_Witness ==
  /\ pc = "END"
  /\ outcomes["synthesizer"] = Raised(MsgTimeout)
  /\ outcomes["final_quality_reviewer"].kind = "return"
  /\ outcomes["final_quality_reviewer"].report = ErrSynthesisPrefix \o MsgTimeout
  /\ state.final_quality_review.review = outcomes["final_quality_reviewer"].text

\* fetch, analyze and synthesize all went well
FetchAnalyzeSynthesizeSucceeded ==
  /\ HasRun("synthesizer")
  /\ outcomes["fetcher"].invoke_ok
  /\ outcomes["fetcher"].user_ok
  /\ \A i \in 1..Len(state.repos_data) :
       /\ no_error(state.repos_data[i])
       /\ outcomes["analyzer"][i].llm.kind = "return"
  /\ outcomes["synthesizer"].kind = "return"

\* C15: when fetch, analyze and synthesize succeed and the final reviewer
\* call raises, a finished run has final_quality_review.approved false, a
\* review text that holds the error message, overall_approved false in
\* the summary, and final_report equal to what the synthesizer returned.
C15_FailedFinalReviewLeavesReport ==
  (/\ Terminal
   /\ FetchAnalyzeSynthesizeSucceeded
   /\ outcomes["final_quality_reviewer"].kind = "raise") =>
    /\ state.final_quality_review.approved = FALSE
    /\ state.final_quality_review.review =
         ErrFinalReviewPrefix \o outcomes["final_quality_reviewer"].msg
    /\ str_in(outcomes["final_quality_reviewer"].msg,
              state.final_quality_review.review)
    /\ state.final_report = outcomes["synthesizer"].text
    /\ get_quality_summary(state).overall_approved = FALSE
    /\ pc = "summarized" => quality_summary.overall_approved = FALSE

\* C15 witness: a summarized run over two clean repositories, both earlier
\* gates approved, whose final reviewer call raised
C15_Witness ==
  /\ pc = "summarized"
  /\ FetchAnalyzeSynthesizeSucceeded
  /\ Len(state.repos_data) = 2
  /\ state.data_quality_review.approved
  /\ state.analysis_quality_review.approved
  /\ outcomes["final_quality_reviewer"].kind = "raise"
  /\ state.final_report = ReportText
  /\ ~quality_summary.overall_approved

\* the fields owned by node n and by the nodes that run after it
NotYetWritten(n) ==
  {owned_field(StageOrder[k]) :
     k \in {j \in 1..Len(StageOrder) :
              \E i \in 1..j : StageOrder[i] = n}}

\* st with other values in the fields node n and the later nodes own
Scrambled(st, n) ==
  [f \in DOMAIN st |->
     IF f \notin NotYetWritten(n) THEN st[f]
     ELSE CASE f = "repos_data" -> <<[name |-> UnknownName]>>
            [] f = "analyses" -> <<ReportText, ErrorWord>>
            [] f = "final_report" -> ErrorWord
            [] OTHER -> [review |-> ErrorWord, approved |-> ~dict_get(st[f], "approved", FALSE)]]

\* C16: a node step changes no field of the state but the one the node
\* owns, so a field written by its stage is never changed by a later one
\* and username and repos never change; what the node hands to its
\* capability does not depend on its own field or on the fields of later
\* stages; taking the summary changes no field at all.
C16_StagesWriteOwnFieldReadEarlierOnes ==
  [][/\ DOMAIN state' = DOMAIN state
     /\ state'.username = state.username
     /\ state'.repos = state.repos
     /\ pc \in nodes =>
          /\ \A f \in DOMAIN state :
               f # owned_field(pc) => state'[f] = state[f]
          /\ capability_input(pc, state) = capability_input(pc, Scrambled(state, pc))
     /\ pc \notin nodes => state' = state]_vars

\* C16 witness: a finished run over two repositories with all six owned
\* fields written and the two inputs as run_analysis received them
C16_Witness ==
  /\ pc = "END"
  /\ state.username = UserName
  /\ state.repos = SelectorTwo
  /\ Len(state.repos_data) = 2
  /\ Len(state.analyses) = 2
  /\ state.final_report = ReportText
  /\ \A n \in ReviewNodes : "approved" \in DOMAIN Gate(n)
  /\ trace = StageOrder

EndsWith(s, suffix) ==
  Len(s) >= Len(suffix) /\ SubSeq(s, Len(s) - Len(suffix) + 1, Len(s)) = suffix

\* the calls made for snapshot i, as the history of analyzer_node has them
AnalyzerCalls(i) == outcomes["analyzer"][i]

\* C17 as stated: a snapshot whose analyzer call returned and whose
\* enrichments all failed or were not attempted, one of them having
\* failed, has exactly the analyzer's text as its analysis.
C17_FailedEnrichmentContributesEmptyString ==
  Analyzed =>
    \A i \in 1..Len(state.repos_data) :
      (/\ AnalyzerCalls(i).llm.kind = "return"
       /\ AnalyzerCalls(i).vec \in {"raise", "none"}
       /\ AnalyzerCalls(i).cloud \in {"fail", "unconfigured"}
       /\ AnalyzerCalls(i).vec = "raise" \/ AnalyzerCalls(i).cloud = "fail")
        => state.analyses[i] = AnalyzerCalls(i).llm.text

\* C17 amended: a failed vector augmentation contributes the fixed text
\* "Vector Analysis: Not available for this repository." right after the
\* analyzer's text, a failed Cloud Run call contributes the empty string,
\* and neither turns the snapshot's analysis into an error analysis.
C17_FailedVectorSaysNotAvailableFailedCloudSaysNothing ==
  Analyzed =>
    \A i \in 1..Len(state.repos_data) :
      AnalyzerCalls(i).llm.kind = "return" =>
        LET text == AnalyzerCalls(i).llm.text
        IN /\ AnalyzerCalls(i).vec = "raise" =>
                StartsWith(state.analyses[i], text \o VectorNotAvailable)
           /\ AnalyzerCalls(i).cloud = "fail" =>
                CASE AnalyzerCalls(i).vec = "raise" ->
                       state.analyses[i] = text \o VectorNotAvailable
                  [] AnalyzerCalls(i).vec = "none" ->
                       state.analyses[i] = text
                  [] AnalyzerCalls(i).vec = "ok" ->
                       /\ StartsWith(state.analyses[i], text \o VectorProcessedPrefix)
                       /\ EndsWith(state.analyses[i], VectorProcessedSuffix)
           /\ ~StartsWith(state.analyses[i], ErrAnalyzingPrefix)

\* C17 witness: a snapshot whose analyzer call returned while both its
\* vector augmentation and its Cloud Run call failed
C17_Witness ==
  /\ Analyzed
  /\ \E i \in 1..Len(state.repos_data) :
       /\ AnalyzerCalls(i).llm.kind = "return"
       /\ AnalyzerCalls(i).vec = "raise"
       /\ AnalyzerCalls(i).cloud = "fail"
       /\ state.analyses[i] = AnalyzerCalls(i).llm.text \o VectorNotAvailable

\* C20: with CLOUD_RUN_URL and CLOUD_RUN_TOKEN configured and a Cloud Run
\* call that returns success for a named snapshot whose analyzer call
\* returned, the snapshot's analysis starts with the analyzer's text and
\* ends with "Cloud Analysis: " followed by the data the service returned.
C20_CloudSuccessIsAppended ==
  Analyzed =>
    \A i \in 1..Len(state.repos_data) :
      (/\ AnalyzerCalls(i).llm.kind = "return"
       /\ AnalyzerCalls(i).cloud = "ok"
       /\ "name" \in DOMAIN state.repos_data[i])
        => /\ StartsWith(state.analyses[i], AnalyzerCalls(i).llm.text)
           /\ EndsWith(state.analyses[i], CloudAnalysisPrefix \o CloudData)

\* how many calls of node n's capability the run has made
CallCount(n) == Cardinality({k \in 1..Len(calls) : calls[k] = n})

\* C18: no capability call is made again after it failed: a node that has
\* run has made one call of its capability, the analyzer one call per
\* snapshot of repos_data, and a node that has not run has made none.
C18_EachCapabilityCalledOnce ==
  \A n \in nodes :
    CallCount(n) =
      IF n \notin DOMAIN outcomes THEN 0
      ELSE IF n = "analyzer" THEN Len(state.repos_data)
      ELSE 1

\* C18 witness: a finished run over two snapshots in which an analyzer
\* call, the synthesizer call and the final reviewer call all failed
C18_Witness ==
  /\ pc = "END"
  /\ Len(state.repos_data) = 2
  /\ outcomes["analyzer"][1].llm.kind = "raise"
  /\ outcomes["synthesizer"].kind = "raise"
  /\ outcomes["final_quality_reviewer"].kind = "raise"
  /\ Len(calls) = 7
  /\ CallCount("analyzer") = 2

\* C19: after a fetch with a list selector in which the tool call and the
\* user lookup went through, the returned sequence has one slot per name
\* asked for: the snapshot of that repository when it exists, an errored
\* snapshot and nothing else when it does not.
C19_BadRepositoryDegradesOnlyItsSlot ==
  (/\ HasRun("fetcher")
   /\ outcomes["fetcher"].invoke_ok
   /\ outcomes["fetcher"].user_ok
   /\ outcomes["fetcher"].selected # <<>>) =>
    LET selected == outcomes["fetcher"].selected
    IN /\ Len(state.repos_data) = Len(selected)
       /\ \A i \in 1..Len(selected) :
            IF selected[i].exists
            THEN dict_get(state.repos_data[i], "name", <<>>) = selected[i].name
            ELSE "error" \in DOMAIN state.repos_data[i]

\* the label each review node signs its record with
ReviewerLabel(n) ==
  CASE n = "data_quality_reviewer" -> "Data Quality Reviewer"
    [] n = "analysis_quality_reviewer" -> "Analysis Quality Reviewer"
    [] n = "final_quality_reviewer" -> "Final Quality Reviewer"

\* the key under which the summary hands out the record of review node n
SummaryKey(n) ==
  CASE n = "data_quality_reviewer" -> "data_quality"
    [] n = "analysis_quality_reviewer" -> "analysis_quality"
    [] n = "final_quality_reviewer" -> "final_quality"

\* C21: at the end of every run each of the three gate records has exactly
\* the keys review, approved and reviewer, with a text, a boolean and the
\* label of its stage, whether the reviewer call returned or raised; the
\* summary therefore holds an approved flag under data_quality,
\* analysis_quality and final_quality, which the CLI reads directly.
C21_GateRecordsHaveThreeKeys ==
  Terminal =>
    \A n \in ReviewNodes :
      /\ DOMAIN Gate(n) = {"review", "approved", "reviewer"}
      /\ Gate(n).approved \in BOOLEAN
      /\ Gate(n).reviewer = ReviewerLabel(n)
      /\ DOMAIN Gate(n).review = 1..Len(Gate(n).review)
      /\ Len(Gate(n).review) > 0
      /\ pc = "summarized" =>
           /\ SummaryKey(n) \in DOMAIN quality_summary
           /\ "approved" \in DOMAIN quality_summary[SummaryKey(n)]
           /\ quality_summary[SummaryKey(n)].approved = Gate(n).approved

\* C21 witness: a summarized run in which the data reviewer raised, the
\* analysis reviewer approved and the final reviewer returned a rejection
C21_Witness ==
  /\ pc = "summarized"
  /\ outcomes["data_quality_reviewer"].kind = "raise"
  /\ outcomes["analysis_quality_reviewer"].kind = "return"
  /\ outcomes["final_quality_reviewer"].kind = "return"
  /\ quality_summary["data_quality"].approved = FALSE
  /\ quality_summary["analysis_quality"].approved = TRUE
  /\ quality_summary["final_quality"].approved = FALSE
  /\ quality_summary["data_quality"].reviewer = "Data Quality Reviewer"

\* C22: two runs that get the same fetch result and the same analyzer and
\* synthesizer responses hold the same repos_data, analyses and
\* final_report, at the end and all the way there, whatever the reviewers
\* answer each of them.
C22_VerdictsNeverFeedForward ==
  /\ state.repos_data = twin.repos_data
  /\ state.analyses = twin.analyses
  /\ state.final_report = twin.final_report
  /\ state.username = twin.username
  /\ state.repos = twin.repos

\* C22 witness: two finished runs over two repositories whose three gates
\* all disagree, with the synthesizer's report in both
C22_Witness ==
  /\ pc = "END"
  /\ Len(state.repos_data) = 2
  /\ Len(twin.analyses) = 2
  /\ \A f \in {"data_quality_review", "analysis_quality_review",
               "final_quality_review"} :
       state[f].approved # twin[f].approved
  /\ state.data_quality_review.review = ErrDataReviewPrefix \o MsgNotApproved
  /\ twin.final_quality_review.review = ErrFinalReviewPrefix \o MsgTimeout
  /\ twin.final_report = ReportText

\* C23: in a summarized run overall_approved is true only when each of the
\* three reviewer calls returned, none raised, with a text that holds
\* "approved" in some letter case; one raised reviewer call is enough to
\* make overall_approved false.
C23_OverallApprovalNeedsThreeReturnedApprovals ==
  pc = "summarized" =>
    /\ quality_summary.overall_approved =>
         \A n \in ReviewNodes :
           /\ outcomes[n].kind = "return"
           /\ ApprovedLiteralIn(outcomes[n].text)
    /\ (\E n \in ReviewNodes : outcomes[n].kind = "raise") =>
         quality_summary.overall_approved = FALSE

\* C23 witness: a summarized run with overall_approved true, in which all
\* three reviewers returned a text holding the word
C23_Witness ==
  /\ pc = "summarized"
  /\ quality_summary.overall_approved
  /\ outcomes["data_quality_reviewer"] = Returned(TextNotApprovedYet)
  /\ outcomes["analysis_quality_reviewer"] = Returned(TextNotApprovedLower)
  /\ outcomes["final_quality_reviewer"].kind = "return"
  /\ outcomes["final_quality_reviewer"].text = TextNotApprovedYet

\* the non-directory entries the loop has popped so far
FilesSeen == {k \in 1..Len(walk.seen) : walk.seen[k].type # "dir"}

\* the directories popped so far whose listing was appended
DirsListed ==
  {walk.seen[k].path : k \in {j \in 1..Len(walk.seen) :
     /\ walk.seen[j].type = "dir"
     /\ walk.seen[j].path \in DOMAIN walk.repo.tree
     /\ walk.repo.tree[walk.seen[j].path].ok}}

\* C24: in the file loop of one repository the count is at every moment
\* the number of non-directory entries popped, large and unreadable files
\* included and directories, listed or not, excluded, and never exceeds 50;
\* the loop is left exactly when nothing is pending or 50 files are counted,
\* so nothing is popped after the 50th file; a loop that ran out of pending
\* entries has popped every entry of the root and of every directory it
\* could list; the snapshot built has that count and those files.
C24_CountIsFilesVisitedCappedAtFifty ==
  /\ walk.processed_files = Cardinality(FilesSeen)
  /\ walk.processed_files <= 50
  /\ DOMAIN walk.files = {walk.seen[k].path : k \in FilesSeen}
  /\ \A k \in FilesSeen :
       walk.files[walk.seen[k].path] =
         IF walk.seen[k].size > 100000 THEN "[Large file]"
         ELSE IF walk.seen[k].readable THEN walk.seen[k].content
         ELSE "[Error reading file]"
  /\ walk.processed_files = 50 =>
       walk.seen[Len(walk.seen)].type # "dir"
  /\ walk.phase = "done" =>
       /\ walk.contents = <<>> \/ walk.processed_files = 50
       /\ "error" \notin DOMAIN walk.repo_data
       /\ walk.repo_data.total_files_processed = Cardinality(FilesSeen)
       /\ walk.repo_data = repo_snapshot(walk.repo)
       /\ walk.contents = <<>> =>
            \A path \in {<<>>} \cup DirsListed :
              \A i \in 1..Len(walk.repo.tree[path].entries) :
                \E k \in 1..Len(walk.seen) :
                  walk.seen[k] = walk.repo.tree[path].entries[i]

\* C24 witness: a finished loop that stopped at 50 files with entries still
\* pending, having counted large and unreadable files and having skipped a
\* directory it could not list
C24_Witness ==
  /\ walk.phase = "done"
  /\ walk.repo_data.total_files_processed = 50
  /\ walk.contents # <<>>
  /\ walk.seen[1].type = "dir"
  /\ walk.seen[1].path \notin DirsListed
  /\ Len(walk.seen) = 51
  /\ \E k \in FilesSeen : walk.seen[k].size > 100000
  /\ \E k \in FilesSeen : ~walk.seen[k].readable

====
